---- MODULE Spec2Model ----
(***************************************************************************)
(* Model of app.py, the Streamlit image background remover: the upload     *)
(* dispatch, fix_image, the memoized process_image and resize_image.       *)
(***************************************************************************)
EXTENDS Integers, Sequences, FiniteSets, TLC

VARIABLES
    pc,           \* position of the script run: idle, dispatch, process, ... done
    uploaded,     \* the file the uploader widget holds in this run (or NoFile)
    requests,     \* number of script runs started so far
    cache,        \* st.cache_data store of process_image: bytes -> entry
    ret,          \* what process_image returned to fix_image in this run
    progressLog,  \* every value given to the progress bar in this run, in order
    status,       \* the text of the status placeholder
    mainMsgs,     \* st.error / st.info elements shown in the main area
    sidebarMsgs,  \* st.sidebar.error elements shown in the sidebar
    col1,         \* images shown in the left column
    col2,         \* images shown in the right column
    download,     \* download buttons offered in the sidebar
    log,          \* tracebacks printed to the operator's stdout
    calls,        \* invocations of decode / resize / remove in this run
    raised,       \* the exception raised inside process_image in this run
    outcome,      \* how this run ended
    hist,         \* per input bytes: what process_image did and returned, over all runs
    rimage,       \* resize_image under test: the raster passed in
    rmax,         \* resize_image under test: max_size
    rout,         \* resize_image under test: what it returned or raised
    rpc           \* resize_image under test: "call" before, "done" after

pipelineVars == <<pc, uploaded, requests, cache, ret, progressLog, status, mainMsgs,
                  sidebarMsgs, col1, col2, download, log, calls, raised, outcome, hist>>
resizeVars == <<rimage, rmax, rout, rpc>>
vars == <<pipelineVars, resizeVars>>

(***************************************************************************)
(* Bounds of the model.                                                    *)
(***************************************************************************)
\* resize_image is explored for max_size in 1..MaxM and sides in 1..MaxDim
MaxM == 16
MaxDim == 24
\* number of script runs (requests) explored by the pipeline specification
MaxRequests == 3

(***************************************************************************)
(* Program constants.                                                      *)
(***************************************************************************)
MAX_FILE_SIZE == 10 * 1024 * 1024
MAX_IMAGE_SIZE == 2000

(***************************************************************************)
(* IEEE-754 binary64 arithmetic, as far as resize_image uses it:           *)
(*   max_size / width       int / int true division, correctly rounded     *)
(*   height * (...)         int * float, correctly rounded                 *)
(*   int(...)               truncation toward zero                         *)
(* A positive double is [l |-> <<l1, l2, l3, l4>>, e |-> exp]: its 53-bit  *)
(* mantissa is an implicit leading 1 followed by four 13-bit limbs, most   *)
(* significant first, and e is the exponent of the leading 1. Operands are *)
(* integers below 2^13, so every intermediate value stays below 2^31.      *)
(***************************************************************************)
LimbBase == 2^13

RECURSIVE Normalize(_, _, _)
\* scale a/b by powers of two until b <= a < 2b; e counts the scaling
Normalize(a, b, e) ==
    IF a < b THEN Normalize(2 * a, b, e - 1)
    ELSE IF a >= 2 * b THEN Normalize(a, 2 * b, e + 1)
    ELSE [a |-> a, b |-> b, e |-> e]

RECURSIVE BitLen(_)
\* the number of binary digits of n >= 0
BitLen(n) == IF n = 0 THEN 0 ELSE 1 + BitLen(n \div 2)

\* x plus one unit in the last place of its mantissa
FloatInc(x) ==
    LET s4 == x.l[4] + 1
        s3 == x.l[3] + (s4 \div LimbBase)
        s2 == x.l[2] + (s3 \div LimbBase)
        s1 == x.l[1] + (s2 \div LimbBase)
    IN  IF s1 \div LimbBase = 1
        THEN [l |-> <<0, 0, 0, 0>>, e |-> x.e + 1]
        ELSE [l |-> <<s1 % LimbBase, s2 % LimbBase, s3 % LimbBase, s4 % LimbBase>>,
              e |-> x.e]

\* a / b for integers a, b >= 1 (Python true division): long division, 13
\* quotient bits at a time, then round-half-to-even on the remainder
FloatDiv(a, b) ==
    LET n  == Normalize(a, b, 0)
        r0 == n.a - n.b
        q1 == (r0 * LimbBase) \div n.b
        r1 == (r0 * LimbBase) % n.b
        q2 == (r1 * LimbBase) \div n.b
        r2 == (r1 * LimbBase) % n.b
        q3 == (r2 * LimbBase) \div n.b
        r3 == (r2 * LimbBase) % n.b
        q4 == (r3 * LimbBase) \div n.b
        r4 == (r3 * LimbBase) % n.b
        x  == [l |-> <<q1, q2, q3, q4>>, e |-> n.e]
        up == 2 * r4 > n.b \/ (2 * r4 = n.b /\ q4 % 2 = 1)
    IN  IF up THEN FloatInc(x) ELSE x

\* k * x for an integer k >= 1 and a double x (the int converts exactly):
\* the exact product, then round-half-to-even back to 53 bits
FloatMulInt(k, x) ==
    LET t4 == x.l[4] * k
        t3 == x.l[3] * k + (t4 \div LimbBase)
        t2 == x.l[2] * k + (t3 \div LimbBase)
        t1 == x.l[1] * k + (t2 \div LimbBase)
        t0 == k + (t1 \div LimbBase)
        p1 == t1 % LimbBase
        p2 == t2 % LimbBase
        p3 == t3 % LimbBase
        p4 == t4 % LimbBase
        d  == BitLen(t0) - 1
        D  == 2^d
        U  == LimbBase \div D
        n1 == (t0 % D) * U + (p1 \div D)
        n2 == (p1 % D) * U + (p2 \div D)
        n3 == (p2 % D) * U + (p3 \div D)
        n4 == (p3 % D) * U + (p4 \div D)
        dropped == p4 % D
        y  == [l |-> <<n1, n2, n3, n4>>, e |-> x.e + d]
        up == 2 * dropped > D \/ (2 * dropped = D /\ n4 % 2 = 1)
    IN  IF up THEN FloatInc(y) ELSE y

\* a variant of int() that rounds to the nearest integer instead of truncating
FloatRoundNearest(x) ==
    IF x.e < -1 THEN 0
    ELSE IF x.e = -1 THEN 1
    ELSE (((2^26 + x.l[1] * LimbBase + x.l[2]) \div 2^(25 - x.e)) + 1) \div 2

\* int(x): truncation toward zero of a positive double below 2^26
FloatToInt(x) ==
    IF x.e < 0 THEN 0
    ELSE (2^26 + x.l[1] * LimbBase + x.l[2]) \div 2^(26 - x.e)


(***************************************************************************)
(* Rasters, results and exceptions.                                        *)
(***************************************************************************)
\* Python's None
None == [kind |-> "None"]

\* a PIL image: its size and the operations its pixels went through
Raster(width, height, px) ==
    [kind |-> "image", width |-> width, height |-> height, px |-> px]

\* a call that returned v / a call that raised an exception whose str() is d
Return(v) == [ok |-> TRUE, value |-> v, detail |-> ""]
Raise(d) == [ok |-> FALSE, value |-> None, detail |-> d]

(***************************************************************************)
(* resize_image                                                            *)
(***************************************************************************)
\* Image.resize(size, Image.LANCZOS): Pillow refuses an empty target size
Image_resize(image, size) ==
    IF size[1] < 1 \/ size[2] < 1
    THEN Raise("height and width must be > 0")
    ELSE Return(Raster(size[1], size[2], Append(image.px, "LANCZOS")))

\* the early-return test with < written for <=
fits_strict(width, height, max_size) == width < max_size /\ height < max_size

\* if width <= max_size and height <= max_size
fits(width, height, max_size) == width <= max_size /\ height <= max_size

\* (new_width, new_height) of the resizing branch
new_size(width, height, max_size) ==
    IF width > height
    THEN <<max_size, FloatToInt(FloatMulInt(height, FloatDiv(max_size, width)))>>
    ELSE <<FloatToInt(FloatMulInt(width, FloatDiv(max_size, height))), max_size>>

resize_image(image, max_size) ==
    IF fits(image.width, image.height, max_size)
    THEN Return(image)
    ELSE Image_resize(image, new_size(image.width, image.height, max_size))

(***************************************************************************)
(* Uploaded files. The bytes of a file determine its size and whether and  *)
(* to what raster Image.open decodes them; `name` stands for the bytes.    *)
(***************************************************************************)
File(name, size, valid, width, height) ==
    [name |-> name, size |-> size, valid |-> valid, width |-> width, height |-> height]

\* uploaded is None: the uploader widget is empty
NoFile == File("", 0, FALSE, 0, 0)

Files ==
    { File("red500", 1024, TRUE, 500, 500),
      File("square2105", MAX_FILE_SIZE, TRUE, 2105, 2105),
      File("wide3000", 4096, TRUE, 3000, 1000),
      File("sliver", 2048, TRUE, 5000, 1),
      File("garbage", 512, FALSE, 0, 0),
      File("huge", MAX_FILE_SIZE + 1, TRUE, 4000, 3000) }

Names == {f.name : f \in Files}

\* what the collaborators may do on one execution of process_image's body:
\* Image.open(...).convert may fail for lack of resources, and rembg's remove
\* returns some alpha mask or fails
DecodeFaults == {"out of memory"}
Masks == {"mask_a", "mask_b"}
RemoveFaults == {"out of memory", "onnxruntime failure"}
\* str() of the exceptions st.image and Image.save may raise in fix_image
DisplayFaults == {"media storage error", "encoder error"}

Details ==
    DecodeFaults \cup RemoveFaults \cup DisplayFaults
        \cup {"cannot identify image file", "height and width must be > 0"}

(***************************************************************************)
(* Elements shown to the user.                                             *)
(***************************************************************************)
Element(kind, text) == [kind |-> kind, text |-> text]

TooLargeMessage ==
    Element("error", <<"File too large. Please upload an image smaller than 10MB.">>)
UploadPrompt ==
    Element("info", <<"Upload an image from the sidebar to begin.">>)
UnexpectedMessage == Element("error", <<"An unexpected error occurred.">>)
SidebarFailed == Element("error", <<"Processing failed.">>)

\* a message for process_image's handler that leaves the exception out
process_error_generic(d) == Element("error", <<"Image processing error">>)

\* st.error(f"Image processing error: {str(e)}")
process_error_message(d) == Element("error", <<"Image processing error: ", d>>)

(***************************************************************************)
(* process_image: the body, and st.cache_data around it.                   *)
(***************************************************************************)
\* Image.open(BytesIO(image_bytes)).convert("RGBA")
decode(file, fault) ==
    IF ~file.valid THEN Raise("cannot identify image file")
    ELSE IF fault # "" THEN Raise(fault)
    ELSE Return(Raster(file.width, file.height, <<"decoded", file.name>>))

\* rembg's remove: same size, alpha channel set to the predicted mask
remove(image, choice) ==
    IF choice \in RemoveFaults THEN Raise(choice)
    ELSE Return(Raster(image.width, image.height, Append(image.px, choice)))

\* one execution of the body of process_image: the value it returns, the
\* elements it shows, the exception it caught, and the calls it made
process_image_body(file, decodeFault, removeChoice) ==
    LET image   == decode(file, decodeFault)
        resized == resize_image(image.value, MAX_IMAGE_SIZE)
        result  == remove(resized.value, removeChoice)
        Failed(e, n) ==
            [value |-> <<None, None>>, messages |-> <<process_error_message(e.detail)>>,
             raised |-> e.detail, calls |-> n]
    IN  IF ~image.ok THEN Failed(image, [decode |-> 1, resize |-> 0, remove |-> 0])
        ELSE IF ~resized.ok
             THEN Failed(resized, [decode |-> 1, resize |-> 1, remove |-> 0])
        ELSE IF ~result.ok
             THEN Failed(result, [decode |-> 1, resize |-> 1, remove |-> 1])
        ELSE [value |-> <<image.value, result.value>>, messages |-> <<>>,
              raised |-> "", calls |-> [decode |-> 1, resize |-> 1, remove |-> 1]]

Absent == [present |-> FALSE, value |-> <<None, None>>, messages |-> <<>>]

\* a cache that never finds its entries
CacheHitNever(c, key) == FALSE

\* st.cache_data: is there an entry for these argument bytes
CacheHit(c, key) == c[key].present

\* a cache that keeps only the runs that produced an image
CacheStoreSuccessOnly(c, key, run) ==
    IF run.value = <<None, None>> THEN c
    ELSE [c EXCEPT ![key] =
             [present |-> TRUE, value |-> run.value, messages |-> run.messages]]

\* st.cache_data: the returned value is stored with the elements the body showed;
\* no ttl and no max_entries are given, so nothing is ever evicted
CacheStore(c, key, run) ==
    [c EXCEPT ![key] =
        [present |-> TRUE, value |-> run.value, messages |-> run.messages]]

\* a cache hit that returns the value without replaying elements
CacheReplayNothing(entry) == <<>>

\* st.cache_data: on a hit the elements recorded with the entry are shown again
CacheReplay(entry) == entry.messages

\* a missing None check
is_none_never(r) == FALSE

\* if original is None or removed is None
is_none(r) == r[1] = None \/ r[2] = None

\* the values with processing and displaying exchanged
progress_at_swapped(stage) ==
    CASE stage = "created" -> 0
      [] stage = "reading" -> 10
      [] stage = "processing" -> 90
      [] stage = "displaying" -> 30
      [] stage = "completed" -> 100

\* the values fix_image gives to the progress bar
progress_at(stage) ==
    CASE stage = "created" -> 0
      [] stage = "reading" -> 10
      [] stage = "processing" -> 30
      [] stage = "displaying" -> 90
      [] stage = "completed" -> 100

\* the size test with the comparison reversed
too_large_reversed(size) == size < MAX_FILE_SIZE

\* if uploaded.size > MAX_FILE_SIZE
too_large(size) == size > MAX_FILE_SIZE

\* convert_image: the PNG encoding of a raster
convert_image(img) == [format |-> "PNG", image |-> img]

NoCalls == [decode |-> 0, resize |-> 0, remove |-> 0]
NoHist ==
    [calls |-> 0, decodes |-> 0, removes |-> 0, returns |-> {}, failed |-> FALSE,
     raised |-> {}]

(***************************************************************************)
(* The script run: upload dispatch and fix_image.                          *)
(***************************************************************************)
PipelineInit ==
    /\ pc = "idle"
    /\ uploaded = NoFile
    /\ requests = 0
    /\ cache = [k \in Names |-> Absent]
    /\ ret = <<None, None>>
    /\ progressLog = <<>>
    /\ status = ""
    /\ mainMsgs = <<>>
    /\ sidebarMsgs = <<>>
    /\ col1 = <<>>
    /\ col2 = <<>>
    /\ download = <<>>
    /\ log = {}
    /\ calls = NoCalls
    /\ raised = ""
    /\ outcome = "none"
    /\ hist = [k \in Names |-> NoHist]

Init ==
    /\ PipelineInit
    /\ rimage = Raster(1, 1, <<"input">>)
    /\ rmax = 1
    /\ rout = Return(None)
    /\ rpc = "off"

\* a user interaction reruns the script from the top with the uploader holding
\* u; the elements of the previous run are replaced, the cache and stdout stay
Rerun(u) ==
    /\ pc \in {"idle", "done"}
    /\ requests < MaxRequests
    /\ requests' = requests + 1
    /\ uploaded' = u
    /\ pc' = "dispatch"
    /\ ret' = <<None, None>>
    /\ progressLog' = <<>>
    /\ status' = ""
    /\ mainMsgs' = <<>>
    /\ sidebarMsgs' = <<>>
    /\ col1' = <<>>
    /\ col2' = <<>>
    /\ download' = <<>>
    /\ calls' = NoCalls
    /\ raised' = ""
    /\ outcome' = "running"
    /\ UNCHANGED <<cache, log, hist, resizeVars>>

\* else: st.info(...)
DispatchNoUpload ==
    /\ pc = "dispatch"
    /\ uploaded = NoFile
    /\ mainMsgs' = Append(mainMsgs, UploadPrompt)
    /\ pc' = "done"
    /\ outcome' = "no_upload"
    /\ UNCHANGED <<uploaded, requests, cache, ret, progressLog, status, sidebarMsgs,
                   col1, col2, download, log, calls, raised, hist, resizeVars>>

\* if uploaded.size > MAX_FILE_SIZE: st.error(...)
DispatchTooLarge ==
    /\ pc = "dispatch"
    /\ uploaded # NoFile
    /\ too_large(uploaded.size)
    /\ mainMsgs' = Append(mainMsgs, TooLargeMessage)
    /\ pc' = "done"
    /\ outcome' = "rejected"
    /\ UNCHANGED <<uploaded, requests, cache, ret, progressLog, status, sidebarMsgs,
                   col1, col2, download, log, calls, raised, hist, resizeVars>>

\* else: fix_image(uploaded), up to the call of process_image
FixImageBegin ==
    /\ pc = "dispatch"
    /\ uploaded # NoFile
    /\ ~too_large(uploaded.size)
    /\ progressLog' = progressLog \o <<progress_at("created"), progress_at("reading"),
                                       progress_at("processing")>>
    /\ status' = "Processing image..."
    /\ pc' = "process"
    /\ UNCHANGED <<uploaded, requests, cache, ret, mainMsgs, sidebarMsgs, col1, col2,
                   download, log, calls, raised, outcome, hist, resizeVars>>

\* process_image(image_bytes), the bytes already in the cache
ProcessImageHit ==
    /\ pc = "process"
    /\ CacheHit(cache, uploaded.name)
    /\ LET entry == cache[uploaded.name]
       IN  /\ ret' = entry.value
           /\ mainMsgs' = mainMsgs \o CacheReplay(entry)
           /\ hist' = [hist EXCEPT ![uploaded.name] =
                         [@ EXCEPT !.calls = @ + 1, !.returns = @ \cup {entry.value}]]
    /\ pc' = "check"
    /\ UNCHANGED <<uploaded, requests, cache, progressLog, status, sidebarMsgs, col1,
                   col2, download, log, calls, raised, outcome, resizeVars>>

\* process_image(image_bytes), the body executed and its result stored
ProcessImageMiss(decodeFault, removeChoice) ==
    /\ pc = "process"
    /\ ~CacheHit(cache, uploaded.name)
    /\ LET run == process_image_body(uploaded, decodeFault, removeChoice)
       IN  /\ ret' = run.value
           /\ mainMsgs' = mainMsgs \o run.messages
           /\ cache' = CacheStore(cache, uploaded.name, run)
           /\ calls' = run.calls
           /\ raised' = run.raised
           /\ hist' = [hist EXCEPT ![uploaded.name] =
                         [calls   |-> @.calls + 1,
                          decodes |-> @.decodes + run.calls.decode,
                          removes |-> @.removes + run.calls.remove,
                          returns |-> @.returns \cup {run.value},
                          failed  |-> @.failed \/ run.raised # "",
                          raised  |-> IF run.raised # "" THEN @.raised \cup {run.raised}
                                      ELSE @.raised]]
    /\ pc' = "check"
    /\ UNCHANGED <<uploaded, requests, progressLog, status, sidebarMsgs, col1, col2,
                   download, log, outcome, resizeVars>>

\* if original is None or removed is None: return
ReturnOnNone ==
    /\ pc = "check"
    /\ is_none(ret)
    /\ pc' = "done"
    /\ outcome' = "process_failed"
    /\ UNCHANGED <<uploaded, requests, cache, ret, progressLog, status, mainMsgs,
                   sidebarMsgs, col1, col2, download, log, calls, raised, hist,
                   resizeVars>>

\* progress.progress(90); status.text("Displaying result...")
BeginDisplay ==
    /\ pc = "check"
    /\ ~is_none(ret)
    /\ progressLog' = Append(progressLog, progress_at("displaying"))
    /\ status' = "Displaying result..."
    /\ pc' = "col1"
    /\ UNCHANGED <<uploaded, requests, cache, ret, mainMsgs, sidebarMsgs, col1, col2,
                   download, log, calls, raised, outcome, hist, resizeVars>>

\* col1.image(original, ...)
ShowOriginal ==
    /\ pc = "col1"
    /\ col1' = Append(col1, ret[1])
    /\ pc' = "col2"
    /\ UNCHANGED <<uploaded, requests, cache, ret, progressLog, status, mainMsgs,
                   sidebarMsgs, col2, download, log, calls, raised, outcome, hist,
                   resizeVars>>

\* col2.image(removed, ...)
ShowRemoved ==
    /\ pc = "col2"
    /\ col2' = Append(col2, ret[2])
    /\ pc' = "download"
    /\ UNCHANGED <<uploaded, requests, cache, ret, progressLog, status, mainMsgs,
                   sidebarMsgs, col1, download, log, calls, raised, outcome, hist,
                   resizeVars>>

\* st.sidebar.download_button(..., data=convert_image(removed), ...)
OfferDownload ==
    /\ pc = "download"
    /\ download' = Append(download,
                          [data |-> convert_image(ret[2]),
                           file_name |-> "removed_background.png",
                           mime |-> "image/png"])
    /\ pc' = "finish"
    /\ UNCHANGED <<uploaded, requests, cache, ret, progressLog, status, mainMsgs,
                   sidebarMsgs, col1, col2, log, calls, raised, outcome, hist,
                   resizeVars>>

\* progress.progress(100); status.text(f"Completed in ... seconds")
Complete ==
    /\ pc = "finish"
    /\ progressLog' = Append(progressLog, progress_at("completed"))
    /\ status' = "Completed"
    /\ pc' = "done"
    /\ outcome' = "completed"
    /\ UNCHANGED <<uploaded, requests, cache, ret, mainMsgs, sidebarMsgs, col1, col2,
                   download, log, calls, raised, hist, resizeVars>>

\* st.image or convert_image raises inside fix_image's try:
\* except Exception: st.error(...); st.sidebar.error(...); print(traceback)
FixImageExcept(d) ==
    /\ pc \in {"col1", "col2", "download"}
    /\ mainMsgs' = Append(mainMsgs, UnexpectedMessage)
    /\ sidebarMsgs' = Append(sidebarMsgs, SidebarFailed)
    /\ log' = log \cup {d}
    /\ pc' = "done"
    /\ outcome' = "exception"
    /\ UNCHANGED <<uploaded, requests, cache, ret, progressLog, status, col1, col2,
                   download, calls, raised, hist, resizeVars>>

Next ==
    \/ \E u \in Files \cup {NoFile} : Rerun(u)
    \/ DispatchNoUpload
    \/ DispatchTooLarge
    \/ FixImageBegin
    \/ ProcessImageHit
    \/ \E df \in DecodeFaults \cup {""}, rc \in Masks \cup RemoveFaults :
           ProcessImageMiss(df, rc)
    \/ ReturnOnNone
    \/ BeginDisplay
    \/ ShowOriginal
    \/ ShowRemoved
    \/ OfferDownload
    \/ Complete
    \/ \E d \in DisplayFaults : FixImageExcept(d)

Spec == Init /\ [][Next]_vars

(***************************************************************************)
(* resize_image on its own: every raster with sides in 1..MaxDim against   *)
(* every max_size in 1..MaxM, and the rasters of Files against             *)
(* MAX_IMAGE_SIZE, as process_image calls it.                              *)
(***************************************************************************)
InitResize ==
    /\ PipelineInit
    /\ \/ /\ rimage \in {Raster(w, h, <<"input">>) : w \in 1..MaxDim, h \in 1..MaxDim}
          /\ rmax \in 1..MaxM
       \/ /\ rimage \in {decode(f, "").value : f \in {g \in Files : g.valid}}
          /\ rmax = MAX_IMAGE_SIZE
    /\ rout = Return(None)
    /\ rpc = "call"

ResizeCall ==
    /\ rpc = "call"
    /\ rout' = resize_image(rimage, rmax)
    /\ rpc' = "done"
    /\ UNCHANGED <<rimage, rmax, pipelineVars>>

NextResize == ResizeCall

SpecResize == InitResize /\ [][NextResize]_vars

(***************************************************************************)
(* Properties of the script run (checked under Spec).                      *)
(***************************************************************************)
\* the exception texts that appear in the elements of the main area
DetailsShown ==
    UNION {{mainMsgs[i].text[j] : j \in DOMAIN mainMsgs[i].text} : i \in DOMAIN mainMsgs}
        \cap Details
ErrorShown == \E i \in DOMAIN mainMsgs : mainMsgs[i].kind = "error"
NothingPresented == col1 = <<>> /\ col2 = <<>> /\ download = <<>>

\* C1: a run whose upload is longer than 10 MiB never invokes decode, resize or
\* remove, shows no progress and no output, and ends with the validation error
\* as the one element shown.
C1_OversizeRejected ==
    (uploaded # NoFile /\ uploaded.size > 10 * 1024 * 1024) =>
        /\ calls = NoCalls
        /\ hist[uploaded.name] = NoHist
        /\ pc \in {"dispatch", "done"}
        /\ progressLog = <<>> /\ NothingPresented
        /\ pc = "done" => (outcome = "rejected" /\ mainMsgs = <<TooLargeMessage>>)

C1_Witness ==
    /\ pc = "done"
    /\ uploaded.size = MAX_FILE_SIZE + 1
    /\ mainMsgs = <<TooLargeMessage>>

\* C2 as stated: when decode, resize or remove raises, the text shown to the
\* user is generic, that is, it never contains the exception's detail.
C2_DetailNeverShown == raised # "" => DetailsShown = {}

\* C2 amended: when decode, resize or remove raises, the one element shown is
\* "Image processing error: " followed by the exception's own text, also when
\* the failure is replayed from the cache, and nothing is logged; only an
\* exception raised in fix_image outside process_image shows the generic
\* message, with the traceback going to the log.
C2_ProcessErrorShowsDetail ==
    /\ raised # "" =>
           mainMsgs = <<Element("error", <<"Image processing error: ", raised>>)>>
    /\ (pc = "done" /\ outcome = "process_failed") =>
           \E d \in hist[uploaded.name].raised :
               mainMsgs = <<Element("error", <<"Image processing error: ", d>>)>>
    /\ (pc = "done" /\ outcome = "exception") =>
           /\ mainMsgs = <<UnexpectedMessage>>
           /\ sidebarMsgs = <<SidebarFailed>>
           /\ log # {}
    /\ log \subseteq DisplayFaults

C2_Witness ==
    /\ pc = "done"
    /\ raised = "onnxruntime failure"
    /\ mainMsgs = <<Element("error", <<"Image processing error: ", "onnxruntime failure">>)>>

\* C3: in a run in which decode, resize or remove raised, neither preview and no
\* download button is ever presented, and the run ends as failed.
C3_NoPartialOutput ==
    raised # "" =>
        /\ NothingPresented
        /\ pc \in {"check", "done"}
        /\ pc = "done" => outcome = "process_failed"

C3_Witness ==
    /\ pc = "done"
    /\ raised \in RemoveFaults
    /\ calls.remove = 1
    /\ NothingPresented

\* C4: every run that ends in failure (file too large, process_image failed now
\* or in the cached run, exception while displaying or encoding), that is every
\* run on an upload that ends without a download button, has shown the user an
\* error element.
C4_EveryFailureVisible ==
    /\ (pc = "done" /\ outcome \in {"rejected", "process_failed", "exception"})
           => ErrorShown
    /\ (pc = "done" /\ uploaded # NoFile /\ download = <<>>) => ErrorShown

C4_Witness ==
    /\ pc = "done"
    /\ outcome = "process_failed"
    /\ raised = ""
    /\ calls = NoCalls
    /\ ErrorShown

\* C8: the values given to the progress bar in one run are all in 0..100 and
\* each is at least the one before it, on every path.
C8_ProgressMonotone ==
    /\ \A i \in DOMAIN progressLog : progressLog[i] \in 0..100
    /\ \A i, j \in DOMAIN progressLog : i < j => progressLog[i] <= progressLog[j]

C8_Witness ==
    /\ pc = "done"
    /\ outcome = "completed"
    /\ progressLog = <<0, 10, 30, 90, 100>>

\* C9: over all runs, process_image returns one and the same result for the same
\* input bytes, and the removal model runs at most once for them.
C9_MemoizedResult ==
    \A k \in Names :
        /\ Cardinality(hist[k].returns) <= 1
        /\ hist[k].removes <= 1

C9_Witness ==
    \E k \in Names :
        /\ hist[k].calls >= 2
        /\ hist[k].removes = 1
        /\ ~hist[k].failed
        /\ pc = "done" /\ uploaded.name = k /\ outcome = "completed"

\* C10: once process_image has caught an exception for some input bytes,
\* (None, None) is stored for them: decode and remove never run again for those
\* bytes, every call returns (None, None), and every run on them ends failed.
C10_FailureMemoized ==
    \A k \in Names :
        hist[k].failed =>
            /\ cache[k].present /\ cache[k].value = <<None, None>>
            /\ hist[k].decodes = 1 /\ hist[k].removes <= 1
            /\ hist[k].returns = {<<None, None>>}
            /\ (pc = "done" /\ uploaded.name = k) => outcome = "process_failed"

C10_Witness ==
    \E k \in Names :
        /\ hist[k].failed
        /\ hist[k].raised = {"out of memory"}
        /\ hist[k].calls >= 2
        /\ pc = "done" /\ uploaded.name = k /\ outcome = "process_failed"
        /\ calls = NoCalls

(***************************************************************************)
(* Properties of resize_image (checked under SpecResize).                  *)
(***************************************************************************)
Oversized == rimage.width > rmax \/ rimage.height > rmax
\* the side set to max_size, the other side, and the other side of the result
Longer == IF rimage.width > rimage.height THEN rimage.width ELSE rimage.height
Other == IF rimage.width > rimage.height THEN rimage.height ELSE rimage.width
OutLonger ==
    IF rimage.width > rimage.height THEN rout.value.width ELSE rout.value.height
OutOther ==
    IF rimage.width > rimage.height THEN rout.value.height ELSE rout.value.width
Abs(n) == IF n < 0 THEN -n ELSE n
ExactFloor == (Other * rmax) \div Longer
ExactRemainder == (Other * rmax) % Longer

\* C5 as stated: the longer side becomes max_size and the other side becomes
\* other * max_size / longer rounded to the nearest integer.
C5_RoundedToNearest ==
    (rpc = "done" /\ Oversized /\ rout.ok) =>
        /\ OutLonger = rmax
        /\ 2 * Abs(OutOther * Longer - Other * rmax) <= Longer

\* C5 amended: the longer side (the height when both are equal) becomes max_size
\* and the other side becomes int(other * (max_size / longer)), truncated, not
\* rounded: floor(other * max_size / longer), or one less when that quotient is
\* an exact integer and the double product falls short of it; when the value
\* is 0, Image.resize raises and no raster is returned.
C5_Truncated ==
    (rpc = "done" /\ Oversized) =>
        IF rout.ok
        THEN /\ OutLonger = rmax
             /\ OutOther >= 1
             /\ \/ OutOther = ExactFloor
                \/ OutOther = ExactFloor - 1 /\ ExactRemainder = 0
             /\ rout.value.px = Append(rimage.px, "LANCZOS")
        ELSE \/ ExactFloor = 0
             \/ ExactFloor = 1 /\ ExactRemainder = 0

C5_Witness ==
    /\ rpc = "done" /\ Oversized /\ rout.ok
    /\ 2 * ExactRemainder > Longer
    /\ OutOther = ExactFloor

\* C6: every raster with a side larger than max_size has a resized output whose
\* larger side is exactly max_size and whose other side differs from
\* other * max_size / longer, the value that keeps the aspect ratio, by less
\* than one pixel.
C6_OutputKeepsAspect ==
    (rpc = "done" /\ Oversized) =>
        /\ rout.ok
        /\ rout.value.width <= rmax /\ rout.value.height <= rmax
        /\ rout.value.width = rmax \/ rout.value.height = rmax
        /\ Abs(OutOther * Longer - Other * rmax) < Longer

\* C7: a raster with width <= max_size and height <= max_size, equality
\* included, is returned as it is: same size, same pixels, no resampling.
C7_SmallUnchanged ==
    (rpc = "done" /\ rimage.width <= rmax /\ rimage.height <= rmax) =>
        rout = Return(rimage)

C7_Witness ==
    /\ rpc = "done"
    /\ rimage.width = rmax /\ rimage.height < rmax
    /\ rout.ok /\ rout.value = rimage

====
